---- MODULE Spec2Model ----
(***************************************************************************)
(* A model of ai_tool.py: the CodeIndex (add, search, search_fuzzy,        *)
(* get_snippets), the directory walk of index_codebase, the query          *)
(* resolver process_query with generate_full_index and generate_text, and  *)
(* the interactive loop of interactive_mode as main() enters it.           *)
(*                                                                         *)
(* A Python str is a sequence of characters, a character is a string of    *)
(* the model.  The three Greek sigmas are written by their code points.    *)
(* A text handed to the gateway is a sequence of pieces: the characters of *)
(* the variable parts and one piece per literal of the source.             *)
(***************************************************************************)
EXTENDS Integers, Sequences, FiniteSets, TLC

VARIABLES
    code_index,   \* the CodeIndex: [index, file_snippets], two insertion-ordered dicts
    added,        \* history: the add calls made so far, in call order
    pc,           \* where the program is
    in_loop,      \* TRUE once interactive_mode has been entered
    user_input,   \* the line input() returned last
    query,        \* process_query's argument
    matches,      \* process_query's local dict
    stages,       \* history: the resolution stages the current query went through
    prompt,       \* process_query's local prompt
    handed,       \* history: the prompts handed to generate_text for the current query
    posts,        \* history: the requests.post calls made for the current query
    exchange,     \* history: how the exchange with the endpoint went, for the current query
    result,       \* what process_query returned
    printed,      \* history: what print(response) wrote since the last line was read
    exit_reason,  \* why the program left the loop, or the exception that ended it
    root_name,    \* index_codebase: the last component of the directory argument
    dir_name,     \* the tree: the name of every directory below the root
    todo,         \* os.walk: the directories still to be yielded, next first
    files,        \* the files of the directory being processed that are still to do
    cur,          \* the directory being processed
    visited,      \* history: the files the walk reached
    failed,       \* history: the files whose classification or read failed
    indexable     \* history: the files that were read as non-blank text

vars == <<code_index, added, pc, in_loop, user_input, query, matches, stages,
          prompt, handed, posts, exchange, result, printed, exit_reason,
          root_name, dir_name, todo, files, cur, visited, failed, indexable>>

queryVars == <<in_loop, user_input, query, matches, stages, prompt, handed,
               posts, exchange, result, printed, exit_reason>>

walkVars == <<root_name, dir_name, todo, files, cur, visited, failed, indexable>>

(***************************************************************************)
(* Bounds.                                                                 *)
(***************************************************************************)
MaxAdds == 2
NumDirs == 3

(***************************************************************************)
(* Characters and str methods.                                             *)
(***************************************************************************)
CapitalSigma == "U+03A3"
SmallSigma == "U+03C3"
FinalSigma == "U+03C2"

Whitespace == {" ", "\n", "\t"}

UpperCase == {"A", "B", "E", "I", "T", "X", CapitalSigma}

LowerCase == {"a", "b", "c", "e", "i", "t", "x", "z", SmallSigma, FinalSigma}

\* Py_UNICODE_ISCASED
IsCased(c) == c \in UpperCase \cup LowerCase

\* Py_UNICODE_ISCASEIGNORABLE: of the characters used here, the full stop and the apostrophe
IsCaseIgnorable(c) == c \in {".", "'"}

\* the simple lower-case mapping of one character
lower_char(c) ==
    CASE c = "A" -> "a"
      [] c = "B" -> "b"
      [] c = "E" -> "e"
      [] c = "I" -> "i"
      [] c = "T" -> "t"
      [] c = "X" -> "x"
      [] c = CapitalSigma -> SmallSigma
      [] OTHER -> c

\* the code point order of the characters, for str comparison
CodePoint(c) ==
    CASE c = "\t" -> 9
      [] c = "\n" -> 10
      [] c = " " -> 32
      [] c = "'" -> 39
      [] c = "." -> 46
      [] c = "A" -> 65
      [] c = "B" -> 66
      [] c = "E" -> 69
      [] c = "I" -> 73
      [] c = "T" -> 84
      [] c = "X" -> 88
      [] c = "a" -> 97
      [] c = "b" -> 98
      [] c = "c" -> 99
      [] c = "e" -> 101
      [] c = "i" -> 105
      [] c = "t" -> 116
      [] c = "x" -> 120
      [] c = "z" -> 122
      [] c = CapitalSigma -> 931
      [] c = FinalSigma -> 962
      [] c = SmallSigma -> 963
      [] OTHER -> 0

\* str.lower's rule for U+03A3 at position i of s: the final sigma when a cased
\* letter precedes it and none follows it, case-ignorable characters skipped
handle_capital_sigma(s, i) ==
    LET before == {j \in 1..(i - 1) : ~IsCaseIgnorable(s[j])}
        after == {j \in (i + 1)..Len(s) : ~IsCaseIgnorable(s[j])}
        prev == CHOOSE j \in before : \A k \in before : k <= j
        next == CHOOSE j \in after : \A k \in after : j <= k
        final_sigma ==
            /\ before # {}
            /\ IsCased(s[prev])
            /\ (after = {} \/ ~IsCased(s[next]))
    IN IF final_sigma THEN FinalSigma ELSE SmallSigma

str_lower(s) ==
    [i \in 1..Len(s) |->
        IF s[i] = CapitalSigma THEN handle_capital_sigma(s, i) ELSE lower_char(s[i])]

str_strip(s) ==
    LET keep == {i \in 1..Len(s) : s[i] \notin Whitespace}
        lo == CHOOSE i \in keep : \A k \in keep : i <= k
        hi == CHOOSE i \in keep : \A k \in keep : k <= i
    IN IF keep = {} THEN <<>> ELSE SubSeq(s, lo, hi)

\* q in s, for two strs
str_in(q, s) ==
    \E i \in 0..(Len(s) - Len(q)) : SubSeq(s, i + 1, i + Len(q)) = q

RECURSIVE str_greater(_, _)
\* x > y, for two strs
str_greater(x, y) ==
    IF x = <<>> THEN FALSE
    ELSE IF y = <<>> THEN TRUE
    ELSE IF Head(x) # Head(y) THEN CodePoint(Head(x)) > CodePoint(Head(y))
    ELSE str_greater(Tail(x), Tail(y))

RECURSIVE str_join(_, _)
\* sep.join(parts), for a list of strs: one text, the separator one piece
str_join(sep, parts) ==
    IF parts = <<>> THEN <<>>
    ELSE IF Len(parts) = 1 THEN parts[1]
    ELSE parts[1] \o <<sep>> \o str_join(sep, Tail(parts))

(***************************************************************************)
(* A Python dict: its items in insertion order.                            *)
(***************************************************************************)
dict_keys(d) == {d[i].key : i \in DOMAIN d}

dict_values(d) == {d[i].val : i \in DOMAIN d}

dict_has(d, k) == \E i \in DOMAIN d : d[i].key = k

dict_get(d, k) == d[CHOOSE i \in DOMAIN d : d[i].key = k].val

\* d[k] = v: a key already there keeps its place
dict_set(d, k, v) ==
    IF dict_has(d, k)
    THEN [i \in DOMAIN d |-> IF d[i].key = k THEN [key |-> k, val |-> v] ELSE d[i]]
    ELSE Append(d, [key |-> k, val |-> v])

(***************************************************************************)
(* CodeIndex.                                                              *)
(***************************************************************************)
EmptyIndex == [index |-> <<>>, file_snippets |-> <<>>]

add_replace_snippets(ci, file_path, function_name, snippet) ==
    [index |-> dict_set(ci.index, str_lower(function_name), file_path),
     file_snippets |-> dict_set(ci.file_snippets, file_path, <<snippet>>)]

add(ci, file_path, function_name, snippet) ==
    LET fs == IF dict_has(ci.file_snippets, file_path)
              THEN ci.file_snippets
              ELSE dict_set(ci.file_snippets, file_path, <<>>)
    IN [index |-> dict_set(ci.index, str_lower(function_name), file_path),
        file_snippets |-> dict_set(fs, file_path, Append(dict_get(fs, file_path), snippet))]

search(ci, q) ==
    LET lowered == str_lower(q)
    IN SelectSeq(ci.index, LAMBDA e : str_in(lowered, e.key))

get_snippets(ci, file_path) ==
    IF dict_has(ci.file_snippets, file_path)
    THEN dict_get(ci.file_snippets, file_path)
    ELSE <<>>

(***************************************************************************)
(* difflib, as search_fuzzy uses it.  No element is junk: isjunk is None   *)
(* and the automatic junk heuristic needs a sequence of 200 elements.      *)
(***************************************************************************)
FuzzyN == 3
CutoffTenths == 6

\* the blocks <<i, j, k>> with a[i .. i+k-1] = b[j .. j+k-1], k > 0
matching_blocks(a, b) ==
    {t \in (1..Len(a)) \X (1..Len(b)) \X (1..Len(a)) :
        /\ t[1] + t[3] - 1 <= Len(a)
        /\ t[2] + t[3] - 1 <= Len(b)
        /\ SubSeq(a, t[1], t[1] + t[3] - 1) = SubSeq(b, t[2], t[2] + t[3] - 1)}

\* SequenceMatcher.find_longest_match: the longest block, of those the one
\* that starts earliest in a, of those the one that starts earliest in b
find_longest_match(a, b) ==
    LET blocks == matching_blocks(a, b)
    IN CHOOSE t \in blocks :
           \A u \in blocks :
               \/ t[3] > u[3]
               \/ t[3] = u[3] /\ t[1] < u[1]
               \/ t[3] = u[3] /\ t[1] = u[1] /\ t[2] <= u[2]

RECURSIVE matched_chars(_, _)
\* the sum of the sizes of SequenceMatcher.get_matching_blocks: the longest
\* block, then the same to its left and to its right
matched_chars(a, b) ==
    IF matching_blocks(a, b) = {} THEN 0
    ELSE LET t == find_longest_match(a, b)
         IN t[3]
            + matched_chars(SubSeq(a, 1, t[1] - 1), SubSeq(b, 1, t[2] - 1))
            + matched_chars(SubSeq(a, t[1] + t[3], Len(a)), SubSeq(b, t[2] + t[3], Len(b)))

\* SequenceMatcher.ratio() = 2.0 * matches / length, 1.0 for length 0, as a fraction
ratio(a, b) ==
    IF Len(a) + Len(b) = 0
    THEN [num |-> 1, den |-> 1]
    ELSE [num |-> 2 * matched_chars(a, b), den |-> Len(a) + Len(b)]

\* (score, str) of x above (score, str) of y, as Python compares the tuples
above(score, x, y) ==
    \/ score[x].num * score[y].den > score[y].num * score[x].den
    \/ /\ score[x].num * score[y].den = score[y].num * score[x].den
       /\ str_greater(x, y)

RECURSIVE nlargest(_, _, _)
\* heapq.nlargest(n, result): the n largest of the scored strs, largest first
nlargest(n, scored, score) ==
    IF n = 0 \/ scored = {} THEN <<>>
    ELSE LET top == CHOOSE x \in scored : \A y \in scored \ {x} : above(score, x, y)
         IN <<top>> \o nlargest(n - 1, scored \ {top}, score)

\* get_close_matches(word, possibilities, n, cutoff): the possibilities that score
\* at least the cutoff (the two quick ratios are upper bounds of ratio), the n
\* best of them, best first; every ratio is computed once
get_close_matches(word, possibilities, n, cutoff_tenths) ==
    CHOOSE best \in
        {nlargest(n,
                  {x \in possibilities : 10 * score[x].num >= cutoff_tenths * score[x].den},
                  score) :
            score \in {[x \in possibilities |-> ratio(x, word)]}} : TRUE

search_fuzzy(ci, q) ==
    LET lowered == str_lower(q)
        all_functions == dict_keys(ci.index)
        closest_matches == get_close_matches(lowered, all_functions, FuzzyN, CutoffTenths)
    IN [i \in DOMAIN closest_matches |->
           [key |-> closest_matches[i], val |-> dict_get(ci.index, closest_matches[i])]]

(***************************************************************************)
(* The prompts of process_query.                                           *)
(***************************************************************************)
\* a file path as text: its components joined by the separator
path_text(file_path) == str_join("/", [i \in DOMAIN file_path |-> <<file_path[i]>>])

RECURSIVE render_snippets(_)
\* generate_full_index's inner loop: a stored snippet is rendered only when
\* len(snippet) == 2, and is then unpacked into its two elements
render_snippets(snippets) ==
    IF snippets = <<>> THEN <<>>
    ELSE LET snippet == Head(snippets)
         IN (IF Len(snippet) = 2
             THEN <<"Function: ", snippet[1], "\n", snippet[2], "\n">>
             ELSE <<>>)
            \o render_snippets(Tail(snippets))

RECURSIVE render_files(_)
render_files(items) ==
    IF items = <<>> THEN <<>>
    ELSE LET e == Head(items)
         IN (IF e.val = <<>>
             THEN <<>>
             ELSE <<"\nFile: ">> \o path_text(e.key) \o <<"\n">> \o render_snippets(e.val))
            \o render_files(Tail(items))

generate_full_index(ci) == render_files(ci.file_snippets)

fallback_prompt(ci, q) ==
    <<"Here is the full codebase index:\n\n">> \o generate_full_index(ci)
        \o <<"\n\nNow, address the following query:\n">> \o q

RECURSIVE all_snippets_once_per_file(_, _)
all_snippets_once_per_file(ci, ms) ==
    IF ms = <<>> THEN <<>>
    ELSE (IF \E i \in 2..Len(ms) : ms[i].val = Head(ms).val
          THEN <<>>
          ELSE get_snippets(ci, Head(ms).val))
         \o all_snippets_once_per_file(ci, Tail(ms))

RECURSIVE all_snippets(_, _)
\* the list process_query extends with get_snippets(file_path), match by match
all_snippets(ci, ms) ==
    IF ms = <<>> THEN <<>>
    ELSE get_snippets(ci, Head(ms).val) \o all_snippets(ci, Tail(ms))

snippets_prompt(ci, ms, q) ==
    <<"Here are the snippets from the codebase index:\n\n">>
        \o str_join("\n\n", all_snippets(ci, ms))
        \o <<"\n\nNow, address the following query:\n">> \o q

(***************************************************************************)
(* generate_text: one exchange with the inference endpoint.  How it goes   *)
(* is the environment's choice.  The endpoint is the one the program is    *)
(* written for: when it answers with a success status and JSON, the JSON   *)
(* is an object.  A body that is no JSON makes requests, from 2.27 on,     *)
(* raise its own JSONDecodeError, which is a RequestException.             *)
(***************************************************************************)
TransportFailures ==
    {"ConnectionError",          \* requests.post raises
     "HTTPError",                \* raise_for_status raises: a status of 400 or above
     "JSONDecodeError"}          \* response.json raises: the body is no JSON

GatewayOutcomes ==
    TransportFailures \cup
    {"response",                 \* a JSON object with a "response" field
     "no response field"}        \* a JSON object without it

ResponseText == <<"o", "k">>

generate_text_http_error_uncaught(p, outcome) ==
    CASE outcome \in {"ConnectionError", "JSONDecodeError"} ->
            [posts |-> 1, raised |-> FALSE, value |-> <<"Error: ", outcome>>]
      [] outcome = "HTTPError" ->
            [posts |-> 1, raised |-> TRUE, value |-> <<outcome>>]
      [] outcome = "response" ->
            [posts |-> 1, raised |-> FALSE, value |-> ResponseText]
      [] outcome = "no response field" ->
            [posts |-> 1, raised |-> FALSE, value |-> <<"No response received">>]

\* one requests.post; what is returned, or the exception that is let through
generate_text(p, outcome) ==
    CASE outcome \in TransportFailures ->
            [posts |-> 1, raised |-> FALSE, value |-> <<"Error: ", outcome>>]
      [] outcome = "response" ->
            [posts |-> 1, raised |-> FALSE, value |-> ResponseText]
      [] outcome = "no response field" ->
            [posts |-> 1, raised |-> FALSE, value |-> <<"No response received">>]

(***************************************************************************)
(* The inputs of the index and of the query resolver.                      *)
(***************************************************************************)
FilePool == {<<"a.py">>, <<"b.py">>}

NamePool == {<<"A", "b">>, <<"a", "B">>, <<"b", CapitalSigma>>}

SnippetPool == {<<"x">>, <<"p", "q">>}

ExitLine == <<"e", "x", "i", "t">>

LinePool ==
    {ExitLine,
     <<"E", "X", "I", "T">>,
     <<" ", "e", "x", "i", "t", " ">>,
     <<>>,
     <<"b">>,
     <<"a", "b", CapitalSigma>>,
     <<"z", "z">>}

\* args.prompt: None (no element), or a str
PromptArgs == {<<>>, <<<<>>>>, <<<<"b">>>>, <<<<"z", "z">>>>}

QueryIdle ==
    /\ in_loop = FALSE
    /\ user_input = <<>>
    /\ query = <<>>
    /\ matches = <<>>
    /\ stages = <<>>
    /\ prompt = <<>>
    /\ handed = <<>>
    /\ posts = 0
    /\ exchange = ""
    /\ result = <<>>
    /\ printed = <<>>
    /\ exit_reason = ""

WalkIdle ==
    /\ root_name = ""
    /\ dir_name = <<>>
    /\ todo = <<>>
    /\ files = <<>>
    /\ cur = <<>>
    /\ visited = {}
    /\ failed = {}
    /\ indexable = {}

\* CodeIndex() has been constructed and nothing is indexed yet
Init ==
    /\ code_index = EmptyIndex
    /\ added = <<>>
    /\ pc = "indexing"
    /\ QueryIdle
    /\ WalkIdle

\* one call of CodeIndex.add
CodeIndex_add(file_path, function_name, snippet) ==
    /\ pc = "indexing"
    /\ Len(added) < MaxAdds
    /\ code_index' = add(code_index, file_path, function_name, snippet)
    /\ added' = Append(added, [file_path |-> file_path, name |-> function_name,
                               snippet |-> snippet])
    /\ UNCHANGED <<pc, queryVars, walkVars>>

\* the index is returned to main
indexing_done ==
    /\ pc = "indexing"
    /\ pc' = "main"
    /\ UNCHANGED <<code_index, added, queryVars, walkVars>>

\* process_query is entered with q
enter_query(q) ==
    /\ query' = q
    /\ matches' = <<>>
    /\ stages' = <<>>
    /\ prompt' = <<>>
    /\ handed' = <<>>
    /\ posts' = 0
    /\ exchange' = ""
    /\ result' = <<>>
    /\ pc' = "search"

\* process_query is left: its locals are gone, and the histories of the query with them
leave_query ==
    /\ query' = <<>>
    /\ matches' = <<>>
    /\ stages' = <<>>
    /\ prompt' = <<>>
    /\ handed' = <<>>
    /\ posts' = 0
    /\ exchange' = ""

\* main: if args.prompt, the one-shot query; then interactive_mode, always
main_prompt(arg) ==
    /\ pc = "main"
    /\ IF arg # <<>> /\ arg[1] # <<>>
       THEN /\ enter_query(arg[1])
            /\ UNCHANGED <<in_loop, printed>>
       ELSE /\ pc' = "input"
            /\ in_loop' = TRUE
            /\ UNCHANGED <<query, matches, stages, prompt, handed, posts, exchange,
                           result, printed>>
    /\ UNCHANGED <<code_index, added, user_input, exit_reason, walkVars>>

process_query_search_then_always_fuzzy ==
    /\ pc = "search"
    /\ matches' = search(code_index, query)
    /\ stages' = Append(stages, "ExactSubstring")
    /\ pc' = "search_fuzzy"
    /\ UNCHANGED <<code_index, added, in_loop, user_input, query, prompt, handed,
                   posts, exchange, result, printed, exit_reason, walkVars>>

\* process_query: matches = code_index.search(query)
process_query_search ==
    /\ pc = "search"
    /\ matches' = search(code_index, query)
    /\ stages' = Append(stages, "ExactSubstring")
    /\ pc' = IF matches' = <<>> THEN "search_fuzzy" ELSE "snippets"
    /\ UNCHANGED <<code_index, added, in_loop, user_input, query, prompt, handed,
                   posts, exchange, result, printed, exit_reason, walkVars>>

\* process_query: if not matches: matches = code_index.search_fuzzy(query)
process_query_search_fuzzy ==
    /\ pc = "search_fuzzy"
    /\ matches' = search_fuzzy(code_index, query)
    /\ stages' = Append(stages, "FuzzyApprox")
    /\ pc' = IF matches' = <<>> THEN "full_index" ELSE "snippets"
    /\ UNCHANGED <<code_index, added, in_loop, user_input, query, prompt, handed,
                   posts, exchange, result, printed, exit_reason, walkVars>>

\* process_query: if not matches: the prompt with the full index
process_query_full_index ==
    /\ pc = "full_index"
    /\ stages' = Append(stages, "FullIndexFallback")
    /\ prompt' = fallback_prompt(code_index, query)
    /\ pc' = "generate"
    /\ UNCHANGED <<code_index, added, in_loop, user_input, query, matches, handed,
                   posts, exchange, result, printed, exit_reason, walkVars>>

\* process_query: the prompt with the snippets of the matched names' files
process_query_snippets ==
    /\ pc = "snippets"
    /\ prompt' = snippets_prompt(code_index, matches, query)
    /\ pc' = "generate"
    /\ UNCHANGED <<code_index, added, in_loop, user_input, query, matches, stages,
                   handed, posts, exchange, result, printed, exit_reason, walkVars>>

\* process_query: return generate_text(prompt); an exception generate_text
\* lets through passes process_query, interactive_mode and main
process_query_generate(outcome) ==
    /\ pc = "generate"
    /\ LET r == generate_text(prompt, outcome)
       IN /\ handed' = Append(handed, prompt)
          /\ posts' = posts + r.posts
          /\ exchange' = outcome
          /\ IF r.raised
             THEN /\ pc' = "crashed"
                  /\ exit_reason' = r.value[1]
                  /\ UNCHANGED result
             ELSE /\ pc' = "return"
                  /\ result' = <<r.value>>
                  /\ UNCHANGED exit_reason
    /\ UNCHANGED <<code_index, added, in_loop, user_input, query, matches, stages,
                   prompt, printed, walkVars>>

\* main: print(response) after the one-shot query, then interactive_mode
main_print ==
    /\ pc = "return"
    /\ ~in_loop
    /\ printed' = Append(printed, result[1])
    /\ in_loop' = TRUE
    /\ pc' = "input"
    /\ leave_query
    /\ UNCHANGED <<code_index, added, user_input, result, exit_reason, walkVars>>

interactive_mode_input_unstripped(line) ==
    /\ pc = "input"
    /\ user_input' = <<line>>
    /\ printed' = <<>>
    /\ IF str_lower(line) = ExitLine
       THEN /\ pc' = "exited"
            /\ exit_reason' = "exit"
            /\ result' = <<>>
            /\ UNCHANGED <<query, matches, stages, prompt, handed, posts, exchange>>
       ELSE /\ enter_query(line)
            /\ UNCHANGED exit_reason
    /\ UNCHANGED <<code_index, added, in_loop, walkVars>>

\* interactive_mode: user_input = input(...); the sentinel breaks, any other
\* line goes to process_query
interactive_mode_input(line) ==
    /\ pc = "input"
    /\ user_input' = <<line>>
    /\ printed' = <<>>
    /\ IF str_lower(str_strip(line)) = ExitLine
       THEN /\ pc' = "exited"
            /\ exit_reason' = "exit"
            /\ result' = <<>>
            /\ UNCHANGED <<query, matches, stages, prompt, handed, posts, exchange>>
       ELSE /\ enter_query(line)
            /\ UNCHANGED exit_reason
    /\ UNCHANGED <<code_index, added, in_loop, walkVars>>

\* interactive_mode: print(response)
interactive_mode_print ==
    /\ pc = "return"
    /\ in_loop
    /\ printed' = Append(printed, result[1])
    /\ pc' = "input"
    /\ leave_query
    /\ UNCHANGED <<code_index, added, in_loop, user_input, result, exit_reason, walkVars>>

\* interactive_mode: except KeyboardInterrupt, anywhere in the try block
interactive_mode_KeyboardInterrupt ==
    /\ in_loop
    /\ pc \in {"input", "search", "search_fuzzy", "full_index", "snippets",
               "generate", "return"}
    /\ pc' = "exited"
    /\ exit_reason' = "KeyboardInterrupt"
    /\ leave_query
    /\ result' = <<>>
    /\ UNCHANGED <<code_index, added, in_loop, user_input, printed, walkVars>>

Next ==
    \/ \E f \in FilePool, n \in NamePool, s \in SnippetPool : CodeIndex_add(f, n, s)
    \/ indexing_done
    \/ \E arg \in PromptArgs : main_prompt(arg)
    \/ process_query_search
    \/ process_query_search_fuzzy
    \/ process_query_full_index
    \/ process_query_snippets
    \/ \E outcome \in GatewayOutcomes : process_query_generate(outcome)
    \/ main_print
    \/ \E line \in LinePool : interactive_mode_input(line)
    \/ interactive_mode_print
    \/ interactive_mode_KeyboardInterrupt

Spec == Init /\ [][Next]_vars

(***************************************************************************)
(* index_codebase: the walk.  The tree has the root, directory 0, and the  *)
(* directories 1..NumDirs below it; every directory holds one file, which  *)
(* is named by its directory.  What a file holds, and whether it can be    *)
(* read, is the environment's choice when the walk gets to it.             *)
(***************************************************************************)
EXCLUDED_FOLDERS == {"vendor", "node_modules", ".git"}

Dirs == 1..NumDirs

parent(d) == (d - 1) \div 2

children(d) == SelectSeq([i \in 1..NumDirs |-> i], LAMBDA c : parent(c) = d)

RootNames == {"proj", "vendor"}

DirNames == {"src", "vendor", "node_modules", ".git"}

FileName == "f.py"

RECURSIVE dir_path(_)
\* os.walk's root for directory d: the directory argument joined with the names below it
dir_path(d) ==
    IF d = 0 THEN <<root_name>> ELSE Append(dir_path(parent(d)), dir_name[d])

\* os.path.join(root, file), for the file of directory d
file_path_of(d) == Append(dir_path(d), FileName)

\* os.path.basename
basename(file_path) == file_path[Len(file_path)]

\* a file name as a str
name_text(file) == <<file>>

kept_dirs_unpruned(dirs) == dirs

\* dirs[:] = [d for d in dirs if d not in EXCLUDED_FOLDERS]
kept_dirs(dirs) == SelectSeq(dirs, LAMBDA d : dir_name[d] \notin EXCLUDED_FOLDERS)

ClassKeyword == <<"c", "l", "a", "s", "s", " ">>

FunctionText == <<"f", "u", "n", "c", "t", "i", "o", "n", " ", "g", "(", ")", "{">>

ClassContent == ClassKeyword \o <<"A", " ">> \o FunctionText

PlainContent == <<"h", "i">>

BlankContent == <<" ", "\n">>

ContentPool == {ClassContent, FunctionText, PlainContent, BlankContent}

\* what is_text_file finds in the first block, and what open and read do
ProbeOutcomes == {"text", "null byte", "unreadable"}

ReadErrors == {"FileNotFoundError", "PermissionError", "OSError"}

ReadOutcomes ==
    [error : ReadErrors, content : {<<>>}] \cup [error : {""}, content : ContentPool]

is_text_file(probe) ==
    CASE probe = "null byte" -> FALSE
      [] probe = "unreadable" -> FALSE
      [] OTHER -> TRUE

\* extract_functions on the contents of the pool: "function g(){" is matched by
\* the PHP pattern, whose first group, the visibility, is empty, and by the
\* JavaScript pattern, whose first group is the declaration; nothing else matches
extract_functions(content) ==
    IF str_in(FunctionText, content)
    THEN <<[name |-> <<"g">>, snippet |-> <<>>],
           [name |-> <<"g">>, snippet |-> FunctionText]>>
    ELSE <<>>

process_file_oserror_uncaught(file_path, file, probe, read) ==
    IF ~is_text_file(probe) THEN [calls |-> <<>>, raised |-> ""]
    ELSE IF read.error # ""
    THEN [calls |-> <<>>, raised |-> IF read.error = "OSError" THEN "OSError" ELSE ""]
    ELSE IF str_strip(read.content) = <<>> THEN [calls |-> <<>>, raised |-> ""]
    ELSE IF str_in(ClassKeyword, read.content)
    THEN [calls |-> <<[file_path |-> file_path, name |-> name_text(basename(file_path)),
                       snippet |-> read.content]>>,
          raised |-> ""]
    ELSE LET functions == extract_functions(read.content)
         IN IF functions # <<>>
            THEN [calls |-> [i \in DOMAIN functions |->
                                [file_path |-> file_path, name |-> functions[i].name,
                                 snippet |-> functions[i].snippet]],
                  raised |-> ""]
            ELSE [calls |-> <<[file_path |-> file_path, name |-> name_text(file),
                               snippet |-> read.content]>>,
                  raised |-> ""]

process_file_no_class_check(file_path, file, probe, read) ==
    IF ~is_text_file(probe) THEN [calls |-> <<>>, raised |-> ""]
    ELSE IF read.error # "" THEN [calls |-> <<>>, raised |-> ""]
    ELSE IF str_strip(read.content) = <<>> THEN [calls |-> <<>>, raised |-> ""]
    ELSE LET functions == extract_functions(read.content)
         IN IF functions # <<>>
            THEN [calls |-> [i \in DOMAIN functions |->
                                [file_path |-> file_path, name |-> functions[i].name,
                                 snippet |-> functions[i].snippet]],
                  raised |-> ""]
            ELSE [calls |-> <<[file_path |-> file_path, name |-> name_text(file),
                               snippet |-> read.content]>>,
                  raised |-> ""]

\* the body of index_codebase's loop for one file: the add calls it makes, and
\* the exception it lets through, if any
process_file(file_path, file, probe, read) ==
    IF ~is_text_file(probe) THEN [calls |-> <<>>, raised |-> ""]
    ELSE IF read.error # "" THEN [calls |-> <<>>, raised |-> ""]
    ELSE IF str_strip(read.content) = <<>> THEN [calls |-> <<>>, raised |-> ""]
    ELSE IF str_in(ClassKeyword, read.content)
    THEN [calls |-> <<[file_path |-> file_path, name |-> name_text(basename(file_path)),
                       snippet |-> read.content]>>,
          raised |-> ""]
    ELSE LET functions == extract_functions(read.content)
         IN IF functions # <<>>
            THEN [calls |-> [i \in DOMAIN functions |->
                                [file_path |-> file_path, name |-> functions[i].name,
                                 snippet |-> functions[i].snippet]],
                  raised |-> ""]
            ELSE [calls |-> <<[file_path |-> file_path, name |-> name_text(file),
                               snippet |-> read.content]>>,
                  raised |-> ""]

RECURSIVE apply_adds(_, _)
\* the add calls of one file, made in order
apply_adds(ci, calls) ==
    IF calls = <<>> THEN ci
    ELSE apply_adds(add(ci, Head(calls).file_path, Head(calls).name, Head(calls).snippet),
                    Tail(calls))

\* index_codebase(directory) is entered: a tree whose sibling directories
\* have different names
InitWalk ==
    /\ code_index = EmptyIndex
    /\ added = <<>>
    /\ pc = "walk"
    /\ QueryIdle
    /\ root_name \in RootNames
    /\ dir_name \in [Dirs -> DirNames]
    /\ \A c, d \in Dirs : (c # d /\ parent(c) = parent(d)) => dir_name[c] # dir_name[d]
    /\ todo = <<0>>
    /\ files = <<>>
    /\ cur = <<>>
    /\ visited = {}
    /\ failed = {}
    /\ indexable = {}

\* os.walk yields the next directory, top down: its subdirectories are pruned
\* and are walked, in order, after its files and before the directories left
os_walk_next ==
    /\ pc = "walk"
    /\ files = <<>>
    /\ todo # <<>>
    /\ cur' = <<Head(todo)>>
    /\ files' = <<Head(todo)>>
    /\ todo' = kept_dirs(children(Head(todo))) \o Tail(todo)
    /\ UNCHANGED <<code_index, added, pc, queryVars, root_name, dir_name, visited,
                   failed, indexable>>

\* the loop body for the next file of the directory
index_codebase_file(probe, read) ==
    /\ pc = "walk"
    /\ files # <<>>
    /\ LET f == Head(files)
           file_path == file_path_of(f)
           r == process_file(file_path, FileName, probe, read)
       IN /\ visited' = visited \cup {f}
          /\ failed' = IF probe = "unreadable" \/ (is_text_file(probe) /\ read.error # "")
                       THEN failed \cup {f} ELSE failed
          /\ indexable' = IF /\ is_text_file(probe)
                             /\ read.error = ""
                             /\ str_strip(read.content) # <<>>
                          THEN indexable \cup {<<f, read.content>>} ELSE indexable
          /\ code_index' = apply_adds(code_index, r.calls)
          /\ added' = added \o r.calls
          /\ IF r.raised # ""
             THEN /\ pc' = "crashed"
                  /\ exit_reason' = r.raised
                  /\ UNCHANGED files
             ELSE /\ files' = Tail(files)
                  /\ UNCHANGED <<pc, exit_reason>>
    /\ UNCHANGED <<in_loop, user_input, query, matches, stages, prompt, handed, posts,
                   exchange, result, printed, root_name, dir_name, todo, cur>>

\* return index
index_codebase_return ==
    /\ pc = "walk"
    /\ files = <<>>
    /\ todo = <<>>
    /\ pc' = "done"
    /\ UNCHANGED <<code_index, added, queryVars, walkVars>>

NextWalk ==
    \/ os_walk_next
    \/ \E probe \in ProbeOutcomes, read \in ReadOutcomes : index_codebase_file(probe, read)
    \/ index_codebase_return

SpecWalk == InitWalk /\ [][NextWalk]_vars

(***************************************************************************)
(* The claims.  What the history variables record is compared with what    *)
(* the program computed.                                                   *)
(***************************************************************************)
\* the snippets the add calls gave file f, in call order
SnippetsAddedTo(f) ==
    LET calls == SelectSeq(added, LAMBDA a : a.file_path = f)
    IN [i \in DOMAIN calls |-> calls[i].snippet]

\* the last add call whose name case-folds to key k
LastAddOf(k) ==
    added[CHOOSE i \in DOMAIN added :
             /\ str_lower(added[i].name) = k
             /\ \A j \in DOMAIN added : j > i => str_lower(added[j].name) # k]

\* a dict holds no key twice
WellFormed(d) == \A i, j \in DOMAIN d : d[i].key = d[j].key => i = j

PromptBuilt == prompt # <<>>

StageOrder == <<"ExactSubstring", "FuzzyApprox", "FullIndexFallback">>

\* C1: process_query tries ExactSubstring, FuzzyApprox, FullIndexFallback in
\* that order and stops at the first stage with a non-empty match: search_fuzzy
\* runs only if search returned nothing, the full-index prompt is built only if
\* both returned nothing, and exactly one prompt is handed to the gateway per query.
C1_StagesInOrder ==
    LET exact == search(code_index, query)
        fuzzy == search_fuzzy(code_index, query)
    IN /\ Len(stages) <= Len(StageOrder)
       /\ stages = SubSeq(StageOrder, 1, Len(stages))
       /\ Len(stages) >= 2 => exact = <<>>
       /\ Len(stages) = 3 => fuzzy = <<>>
       /\ PromptBuilt =>
             /\ Len(stages) = 1 => exact # <<>>
             /\ Len(stages) = 2 => fuzzy # <<>>
             /\ (prompt[1] = "Here is the full codebase index:\n\n") <=> (Len(stages) = 3)
       /\ Len(handed) <= 1
       /\ Len(handed) = 1 => PromptBuilt /\ handed[1] = prompt
       /\ pc \in {"return", "crashed"} => Len(handed) = 1

C1_Witness ==
    /\ pc = "return"
    /\ stages = StageOrder
    /\ code_index.index # <<>>
    /\ Len(handed) = 1

Letters == UpperCase \cup LowerCase

\* one letter, whatever its case
fold(c) == IF c \in {CapitalSigma, SmallSigma, FinalSigma} THEN SmallSigma ELSE lower_char(c)

Substrings(s) == {SubSeq(s, i, j) : i \in 1..(Len(s) + 1), j \in 0..Len(s)}

\* t written in any letter case
CaseVariants(t) ==
    {q \in [1..Len(t) -> Letters] : \A i \in 1..Len(t) : fold(q[i]) = fold(t[i])}

\* C2: after any sequence of add calls, search(q) contains the lower-cased name
\* for every added name and every substring q of it in any letter case, and
\* returns exactly the entries whose name contains the lower-cased q.
C2_SearchFindsEverySubstring ==
    \A i \in DOMAIN added :
        \A t \in Substrings(added[i].name) :
            \A q \in CaseVariants(t) :
                /\ str_lower(added[i].name) \in dict_keys(search(code_index, q))
                /\ dict_keys(search(code_index, q))
                      = {k \in dict_keys(code_index.index) : str_in(str_lower(q), k)}

contains_at(text, part, j) == SubSeq(text, j, j + Len(part) - 1) = part

\* C3: in FullIndexFallback the rendering of generate_full_index holds, for every
\* file with a stored snippet, a file header and, for every snippet of the file,
\* a label followed by the snippet's body; the prompt is the rendering followed
\* by the query.
C3_FullIndexHoldsEverySnippet ==
    (PromptBuilt /\ Len(stages) = 3) =>
        LET r == generate_full_index(code_index)
        IN /\ prompt = <<"Here is the full codebase index:\n\n">> \o r
                          \o <<"\n\nNow, address the following query:\n">> \o query
           /\ \A f \in FilePool :
                 SnippetsAddedTo(f) # <<>> =>
                    /\ \E i \in DOMAIN r :
                          r[i] = "\nFile: " /\ contains_at(r, path_text(f), i + 1)
                    /\ \A k \in DOMAIN SnippetsAddedTo(f) :
                          \E i \in DOMAIN r, j \in DOMAIN r :
                             /\ i < j
                             /\ r[i] = "Function: "
                             /\ contains_at(r, SnippetsAddedTo(f)[k], j)

\* C4: index[lower(name)] is the file path of the most recent add of that name,
\* file_snippets[f] is the sequence, in call order and with duplicates, of all
\* the snippets added with path f, and nothing is ever removed.
C4_LastWriteWinsSnippetsAccumulate ==
    /\ WellFormed(code_index.index)
    /\ WellFormed(code_index.file_snippets)
    /\ dict_keys(code_index.index) = {str_lower(added[i].name) : i \in DOMAIN added}
    /\ \A k \in dict_keys(code_index.index) :
          dict_get(code_index.index, k) = LastAddOf(k).file_path
    /\ dict_keys(code_index.file_snippets) = {added[i].file_path : i \in DOMAIN added}
    /\ \A f \in dict_keys(code_index.file_snippets) :
          dict_get(code_index.file_snippets, f) = SnippetsAddedTo(f)

C4_Witness ==
    \E i, j \in DOMAIN added :
        /\ i < j
        /\ added[i].name # added[j].name
        /\ str_lower(added[i].name) = str_lower(added[j].name)
        /\ added[i].file_path # added[j].file_path
        /\ added[i].file_path \notin dict_values(code_index.index)
        /\ get_snippets(code_index, added[i].file_path) = <<added[i].snippet>>

RECURSIVE SnippetsOfMatches(_)
\* the snippets of the matched names' files, match by match, from the history
SnippetsOfMatches(ms) ==
    IF ms = <<>> THEN <<>>
    ELSE SnippetsAddedTo(LastAddOf(Head(ms).key).file_path) \o SnippetsOfMatches(Tail(ms))

\* C5: with a non-empty match mapping the prompt is the snippets of the owning
\* file of every matched name, in the mapping's order, joined into one block
\* and followed by the query; one indexed name with one snippet gives a prompt
\* of that snippet and the query.
C5_PromptIsMatchedSnippetsThenQuery ==
    (PromptBuilt /\ matches # <<>>) =>
        /\ prompt = <<"Here are the snippets from the codebase index:\n\n">>
                       \o str_join("\n\n", SnippetsOfMatches(matches))
                       \o <<"\n\nNow, address the following query:\n">> \o query
        /\ (Len(added) = 1) =>
              prompt = <<"Here are the snippets from the codebase index:\n\n">>
                          \o added[1].snippet
                          \o <<"\n\nNow, address the following query:\n">> \o query

C5_Witness ==
    /\ pc = "return"
    /\ stages = <<"ExactSubstring", "FuzzyApprox">>
    /\ Len(matches) = 2
    /\ matches[1].val # matches[2].val
    /\ matches[1].key # code_index.index[1].key

IsExitWord(w) == Len(w) = Len(ExitLine) /\ \A i \in 1..Len(w) : fold(w[i]) = ExitLine[i]

\* line is "exit" in some letter case between whitespace
IsExitWordInWhitespace(line) ==
    \E i \in 1..Len(line), j \in 1..Len(line) :
        /\ IsExitWord(SubSeq(line, i, j))
        /\ \A k \in 1..Len(line) : (k < i \/ k > j) => line[k] \in Whitespace

\* what the loop does with a line it has read, and how it is entered and left
LoopHandlesLines ==
    /\ user_input # <<>> =>
          /\ exit_reason # "exit" =>
                /\ pc # "crashed"
                /\ pc \in {"search", "search_fuzzy", "full_index", "snippets",
                            "generate", "return"} => query = user_input[1]
                /\ pc = "input" => printed = result /\ Len(result) = 1
                /\ Len(printed) <= 1
          /\ exit_reason = "exit" => printed = <<>> /\ result = <<>>
    /\ exit_reason = "KeyboardInterrupt" => pc = "exited" /\ in_loop
    /\ pc \in {"input", "exited"} => in_loop

\* C9 as stated: the loop ends on a line exactly when the line
\* case-insensitively equals "exit"; every other line goes to process_query
\* once, its result is printed and the next line is read; an interrupt ends
\* the loop without an error; the loop is entered with or without --prompt.
C9_LoopEndsOnlyOnExit ==
    /\ user_input # <<>> =>
          ((pc = "exited" /\ exit_reason = "exit") <=> IsExitWord(user_input[1]))
    /\ LoopHandlesLines

\* C9 as amended: the loop ends on a line exactly when the line, with its
\* leading and trailing whitespace stripped, case-insensitively equals "exit";
\* the rest as stated.
C9_LoopEndsOnStrippedExit ==
    /\ user_input # <<>> =>
          ((pc = "exited" /\ exit_reason = "exit") <=> IsExitWordInWhitespace(user_input[1]))
    /\ LoopHandlesLines

C9_Witness ==
    /\ pc = "exited"
    /\ exit_reason = "exit"
    /\ user_input = <<<<" ", "e", "x", "i", "t", " ">>>>
    /\ in_loop

RECURSIVE beneath_excluded(_)
\* directory d is, or lies beneath, a directory below the root with an excluded name
beneath_excluded(d) ==
    /\ d # 0
    /\ \/ dir_name[d] \in {"vendor", "node_modules", ".git"}
       \/ beneath_excluded(parent(d))

AllFiles == 0..NumDirs

\* C6: no file beneath a directory named vendor, node_modules or .git, at any
\* depth below the root, is visited, or is a value of index or a key of file_snippets.
C6_ExcludedNeverIndexed ==
    \A f \in AllFiles :
        beneath_excluded(f) =>
            /\ f \notin visited
            /\ file_path_of(f) \notin dict_values(code_index.index)
            /\ file_path_of(f) \notin dict_keys(code_index.file_snippets)

C6_Witness ==
    /\ pc = "done"
    /\ root_name = "vendor"
    /\ dir_name[1] = "src"
    /\ dir_name[2] = ".git"
    /\ dir_name[3] = "node_modules"
    /\ file_path_of(0) \in dict_keys(code_index.file_snippets)
    /\ file_path_of(1) \in dict_keys(code_index.file_snippets)

\* C7: a file whose classification or read fails adds nothing, the walk still
\* reaches every other file, and the index returned holds every indexable file:
\* no per-file error leaves index_codebase.
C7_FileErrorsNeverAbortWalk ==
    /\ pc # "crashed"
    /\ \A f \in failed :
          /\ file_path_of(f) \notin dict_keys(code_index.file_snippets)
          /\ file_path_of(f) \notin dict_values(code_index.index)
          /\ \A i \in DOMAIN added : added[i].file_path # file_path_of(f)
    /\ pc = "done" =>
          /\ visited = {f \in AllFiles : ~beneath_excluded(f)}
          /\ \A fc \in indexable :
                file_path_of(fc[1]) \in dict_keys(code_index.file_snippets)

C7_Witness ==
    /\ pc = "done"
    /\ 0 \in failed
    /\ \E fc \in indexable :
          /\ fc[1] # 0
          /\ file_path_of(fc[1]) \in dict_keys(code_index.file_snippets)

\* C10: a readable text file whose content holds "class " gets exactly one add,
\* under its own file name and with the whole content, and no function of it is
\* extracted: file_snippets holds that one element for it.
C10_ClassFileIsOneWholeSnippet ==
    \A fc \in indexable :
        str_in(ClassKeyword, fc[2]) =>
            /\ SelectSeq(added, LAMBDA a : a.file_path = file_path_of(fc[1]))
                  = <<[file_path |-> file_path_of(fc[1]), name |-> <<FileName>>,
                       snippet |-> fc[2]]>>
            /\ get_snippets(code_index, file_path_of(fc[1])) = <<fc[2]>>

C10_Witness ==
    /\ pc = "done"
    /\ \E fc \in indexable :
          /\ str_in(ClassKeyword, fc[2])
          /\ extract_functions(fc[2]) # <<>>
          /\ get_snippets(code_index, file_path_of(fc[1])) = <<fc[2]>>

====
